---- MODULE Spec2Model ----
(***************************************************************************)
(* Nimathi: reward points, tiers and the profile store.                    *)
(*                                                                         *)
(* One user.  The client is the React application shell (App) with its     *)
(* activity screens; the server is the Hono application over the key-value *)
(* store.  A client handler that awaits a remote call is split at each     *)
(* await: the request is served by the endpoint in one step and the        *)
(* handler's continuation runs in the next.                                *)
(***************************************************************************)
EXTENDS Integers, Sequences, FiniteSets, TLC

VARIABLES
    user,           \* App: useState<User | null>
    userStress,     \* the stressLevels field of that user
    session,        \* localStorage 'nimathi-session' is present
    localUsers,     \* localStorage 'nimathi-local-users' holds the account
    currentScreen,  \* App: useState<AppScreen>
    op,             \* the client handler in flight (closure and position)
    op2,            \* a second call of a handler, suspended at an await
    kvUser,         \* kv store: key user:<userId>
    kvActivities,   \* kv store: number of keys activity:<userId>:<id>
    kvJournal,      \* kv store: number of keys journal:<userId>:<id>
    kvStress,       \* kv store: the stressLevels field of user:<userId>
    kvId,           \* kv store: the id field of user:<userId>
    now,            \* the clock, in half days
    response,       \* the HTTP response the last step produced, if any
    points,         \* Dashboard: the user.rewardPoints prop of a render
    badge,          \* Dashboard: the tier shown in the badge
    nextTier,       \* Dashboard: the text next to the point total
    storedUser,     \* localStorage 'nimathi-user' is present
    isLoading,      \* App: useState(true), the spinner of the session check
    kvTasks,        \* kv store: number of keys task:<userId>:<id>
    inflight,       \* server: requests suspended between their awaits
    timer,          \* MeditationScreen: its state, its interval, its renders
    canvas          \* DrawingCanvas: its stacks and what the canvas shows

vars == << user, userStress, session, localUsers, currentScreen, op, op2,
           kvUser, kvActivities, kvJournal, kvStress, kvId, now,
           response, points, badge, nextTier, storedUser, isLoading,
           kvTasks, inflight, timer, canvas >>

clientVars == << user, userStress, session, localUsers, currentScreen, op, op2,
                 storedUser, isLoading >>
kvVars     == << kvUser, kvActivities, kvJournal, kvStress, kvId, kvTasks >>
serverVars == << kvUser, kvActivities, kvJournal, kvStress, kvId, kvTasks,
                 response >>
dashVars   == << points, badge, nextTier >>
screenVars == << timer, canvas >>

-----------------------------------------------------------------------------
(* Bounds of the model *)

MaxPoints == 60         \* no award is started that would pass this total
MaxActivities == 2      \* activity records the store holds at most
MaxJournal == 2         \* journal entries the store holds at most
MaxTierPoints == 320    \* point totals the tier lookup is checked on
MaxStress == 2          \* stress entries a stored profile holds at most
MaxTasks == 2           \* task records the store holds at most
MaxRequests == 2        \* requests the server serves in one run of the race
MaxIntervals == 2       \* timer intervals that exist at once at most
MaxSaves == 3           \* canvas states saved after the first state of a run
MaxDraws == 2           \* pointer moves that paint on the canvas in a run

Durations == {5, 10}            \* slider values (minutes) tried
WordCounts == {1, 375, 1000}    \* journal word counts tried
StorePoints == {0, 40}          \* rewardPoints of a profile found at start
SliderValues == {3, 10}         \* session lengths (minutes) set on the slider
EarlierStrokes == {0, 18}       \* strokes a drawing has when a run starts

-----------------------------------------------------------------------------
(* Values *)

Min(a, b) == IF a <= b THEN a ELSE b
Max(a, b) == IF a >= b THEN a ELSE b

Null == [present |-> FALSE, rewardPoints |-> 0]

\* The state of a screen that is not shown, and of a server without a
\* suspended request.
Unmounted == [mounted |-> FALSE]
NoRequests == << >>
Profile(p) == [present |-> TRUE, rewardPoints |-> p]

ActivityTypes == {"meditation", "drawing", "journaling", "other"}

Screens == {"auth", "dashboard", "tasks", "stress-free", "feedback",
            "meditation", "drawing", "journaling"}

\* The id of the one user: the Supabase Auth id, and so the userId of the
\* request paths and of the key user:<userId>.
UserId == "u1"

\* A field a JSON object does not have (undefined).
Undefined == -1

\* Slip: the level clamped to [0, 10].
StressEntry_Clamped(level, date, timestamp) ==
    [level |-> IF level < 0 THEN 0 ELSE IF level > 10 THEN 10 ELSE level,
     date |-> date, timestamp |-> timestamp]

\* A stress entry; the app's own User type has {week, level} entries, which
\* have neither date nor timestamp.
StressEntry(level, date, timestamp) ==
    [level |-> level, date |-> date, timestamp |-> timestamp]

\* Instants of the clock tried, in half days: day 1 and day 31, morning and
\* evening.
Instants == {2, 3, 62, 63}

\* Bodies of stress writes tried: a level in range, one above and one below;
\* a date given (day 7) or none.
StressInputs ==
    { [level |-> 4, date |-> Undefined], [level |-> 11, date |-> Undefined],
      [level |-> -1, date |-> 7] }

\* Ids a profile update may carry.
Ids == {UserId, "u2"}

\* A response, with what the model needs of the request it answers (the type
\* of an activity, the level and date of a stress write) and of its body
\* (records: how many records a listing returns).
NoResponse == [endpoint |-> "none", status |-> 0, type |-> "",
               level |-> Undefined, date |-> Undefined,
               stressLevels |-> << >>, records |-> Undefined]

Response(endpoint, status) ==
    [endpoint |-> endpoint, status |-> status, type |-> "",
     level |-> Undefined, date |-> Undefined,
     stressLevels |-> << >>, records |-> Undefined]

Idle == [kind |-> "none", pc |-> "idle", metric |-> 0, u |-> 0, store0 |-> 0,
         awarded |-> FALSE]

\* A handler that has returned stays visible as "done" until anything else
\* happens.
Settle(o) == IF o.pc = "done" THEN Idle ELSE o

\* No handler is between two of its steps.
Settled == op.pc \in {"idle", "done"}

-----------------------------------------------------------------------------
(* Point awards *)

\* Slip: one point per minute.
MeditationPoints_PerMinute(d) == d

\* part_001 completeMeditation: Math.floor(customTimer[0] * 2)
MeditationPoints(d) == d * 2

\* JournalingScreen saveEntry: Math.min(20, Math.floor(wordCount / 25) + 5)
JournalingPoints(wc) == Min(20, (wc \div 25) + 5)

\* Slip: the smallest journaling award in place of the drawing award.
DrawingPoints_AsJournalMin == JournalingPoints(0)

\* DrawingCanvas saveDrawing: const points = 15
DrawingPoints == 15

\* What a client handler adds to the profile it captured.
ClientPoints(kind, metric) ==
    CASE kind = "meditation" -> MeditationPoints(metric)
      [] kind = "journaling" -> JournalingPoints(metric)
      [] kind = "drawing"    -> DrawingPoints
      [] OTHER               -> 0

\* POST /activity/:userId: the pointsEarned conditional
ServerPoints(type) ==
    IF type = "meditation" THEN 10
    ELSE IF type = "drawing" THEN 15
    ELSE IF type = "journaling" THEN 20
    ELSE 5

-----------------------------------------------------------------------------
(* Server: the endpoints of nimathi-server.tsx.  tokenOK says the request   *)
(* carries an access token and supabase.auth.getUser resolves it to the     *)
(* user of the path.                                                        *)

\* Slip: 31 days.
ThirtyDays_AndOne == 31 * 2

\* thirtyDaysAgo.setDate(thirtyDaysAgo.getDate() - 30), in half days
ThirtyDays == 30 * 2

\* new Date().toISOString().split('T')[0]: the calendar day of an instant
Today(t) == t \div 2

\* Slip: unshift in place of push.
Push_Front(s, e) == << e >> \o s

\* userData.stressLevels.push(stressEntry)
Push(s, e) == Append(s, e)

\* Slip: no filter.
Prune_KeepAll(s, t) == s

\* stressLevels.filter(entry => new Date(entry.timestamp) > thirtyDaysAgo); an
\* entry without timestamp gives an Invalid Date, which compares false.
Prune(s, t) ==
    SelectSeq(s, LAMBDA e : /\ e.timestamp # Undefined
                            /\ e.timestamp > t - ThirtyDays)

\* Slip: a welcome bonus in the stored profile.
SignupEndpoint_WelcomeBonus ==
    IF kvUser.present
    THEN /\ response' = Response("signup", 400)
         /\ UNCHANGED kvVars
    ELSE /\ kvUser' = Profile(10)
         /\ kvStress' = << >>
         /\ kvId' = UserId
         /\ response' = Response("signup", 200)
         /\ UNCHANGED << kvActivities, kvJournal, kvTasks >>

\* POST /auth/signup.  Supabase Auth refuses an email it already has; the
\* profile is stored with rewardPoints: 0.
SignupEndpoint ==
    IF kvUser.present
    THEN /\ response' = Response("signup", 400)
         /\ UNCHANGED kvVars
    ELSE /\ kvUser' = Profile(0)
         /\ kvStress' = << >>
         /\ kvId' = UserId
         /\ response' = Response("signup", 200)
         /\ UNCHANGED << kvActivities, kvJournal, kvTasks >>

\* Slip: the read prunes the stress sequence.
UserGetEndpoint_Pruning(tokenOK) ==
    /\ response' = Response("user.get",
                             IF ~tokenOK THEN 401
                             ELSE IF ~kvUser.present THEN 404 ELSE 200)
    /\ kvStress' = Prune(kvStress, now)
    /\ UNCHANGED << kvUser, kvActivities, kvJournal, kvId, kvTasks >>

\* GET /user/:userId
UserGetEndpoint(tokenOK) ==
    /\ response' = Response("user.get",
                             IF ~tokenOK THEN 401
                             ELSE IF ~kvUser.present THEN 404 ELSE 200)
    /\ UNCHANGED kvVars

\* Slip: {...updates, ...existingData}, the stored fields win.
UserPutEndpoint_KeepExisting(tokenOK, updates) ==
    IF ~tokenOK
    THEN /\ response' = Response("user.put", 401)
         /\ UNCHANGED kvVars
    ELSE IF ~kvUser.present
    THEN /\ response' = Response("user.put", 404)
         /\ UNCHANGED kvVars
    ELSE /\ response' = Response("user.put", 200)
         /\ UNCHANGED kvVars

\* PUT /user/:userId: {...existingData, ...updates}: every field the body
\* has replaces the stored one.  The app sends its whole User.
UserPutEndpoint(tokenOK, updates) ==
    IF ~tokenOK
    THEN /\ response' = Response("user.put", 401)
         /\ UNCHANGED kvVars
    ELSE IF ~kvUser.present
    THEN /\ response' = Response("user.put", 404)
         /\ UNCHANGED kvVars
    ELSE /\ kvUser' = Profile(IF "rewardPoints" \in DOMAIN updates
                                THEN updates.rewardPoints
                                ELSE kvUser.rewardPoints)
         /\ kvStress' = IF "stressLevels" \in DOMAIN updates
                        THEN updates.stressLevels ELSE kvStress
         /\ kvId' = IF "id" \in DOMAIN updates THEN updates.id ELSE kvId
         /\ response' = Response("user.put", 200)
         /\ UNCHANGED << kvActivities, kvJournal, kvTasks >>

\* GET /tasks/:userId: kv.getByPrefix returns one record per key.
TasksGetEndpoint(tokenOK) ==
    /\ response' = IF ~tokenOK THEN Response("tasks.get", 401)
                   ELSE [Response("tasks.get", 200) EXCEPT !.records = kvTasks]
    /\ UNCHANGED kvVars

\* POST /tasks/:userId.  The key is task:<userId>:<userId>_<Date.now()>.
\* sameMs: Date.now() returns the millisecond in which a task of the user
\* was stored before, so kv.set writes over that task's key.
TasksPostEndpoint(tokenOK, sameMs) ==
    IF ~tokenOK
    THEN /\ response' = Response("tasks.post", 401)
         /\ UNCHANGED kvVars
    ELSE /\ sameMs => kvTasks > 0
         /\ ~sameMs => kvTasks < MaxTasks
         /\ kvTasks' = IF sameMs THEN kvTasks ELSE kvTasks + 1
         /\ response' = Response("tasks.post", 200)
         /\ UNCHANGED << kvUser, kvActivities, kvJournal, kvStress, kvId >>

\* GET /journal/:userId
JournalGetEndpoint(tokenOK) ==
    /\ response' = IF ~tokenOK THEN Response("journal.get", 401)
                   ELSE [Response("journal.get", 200) EXCEPT
                            !.records = kvJournal]
    /\ UNCHANGED kvVars

\* Slip: the entry is stored before the token is looked at.
JournalEndpoint_StoreFirst(tokenOK, wordCount, sameMs) ==
    /\ sameMs => kvJournal > 0
    /\ ~sameMs => kvJournal < MaxJournal
    /\ kvJournal' = IF sameMs THEN kvJournal ELSE kvJournal + 1
    /\ response' = Response("journal", IF tokenOK THEN 200 ELSE 401)
    /\ UNCHANGED << kvUser, kvActivities, kvStress, kvId, kvTasks >>

\* POST /journal/:userId.  The key is journal:<userId>:<userId>_<Date.now()>;
\* sameMs as for tasks.
JournalEndpoint(tokenOK, wordCount, sameMs) ==
    IF ~tokenOK
    THEN /\ response' = Response("journal", 401)
         /\ UNCHANGED kvVars
    ELSE /\ sameMs => kvJournal > 0
         /\ ~sameMs => kvJournal < MaxJournal
         /\ kvJournal' = IF sameMs THEN kvJournal ELSE kvJournal + 1
         /\ response' = Response("journal", 200)
         /\ UNCHANGED << kvUser, kvActivities, kvStress, kvId, kvTasks >>

\* POST /activity/:userId.  The activity is stored, the points are added to
\* the profile when there is one, and the return statement then reads
\* pointsEarned outside the block that declares it: a ReferenceError, caught
\* by the handler's catch, which answers 500.  The key is
\* activity:<userId>:<userId>_<Date.now()>; sameMs as for tasks.
ActivityEndpoint(tokenOK, type, duration, sameMs) ==
    IF ~tokenOK
    THEN /\ response' = [endpoint |-> "activity", status |-> 401,
                          type |-> type, level |-> Undefined,
                          date |-> Undefined, stressLevels |-> << >>,
                          records |-> Undefined]
         /\ UNCHANGED kvVars
    ELSE /\ sameMs => kvActivities > 0
         /\ ~sameMs => kvActivities < MaxActivities
         /\ kvUser.present => kvUser.rewardPoints + ServerPoints(type) <= MaxPoints
         /\ kvActivities' = IF sameMs THEN kvActivities ELSE kvActivities + 1
         /\ kvUser' = IF kvUser.present
                      THEN Profile(kvUser.rewardPoints + ServerPoints(type))
                      ELSE kvUser
         /\ response' = [endpoint |-> "activity", status |-> 500,
                          type |-> type, level |-> Undefined,
                          date |-> Undefined, stressLevels |-> << >>,
                          records |-> Undefined]
         /\ UNCHANGED << kvJournal, kvStress, kvId, kvTasks >>

\* POST /stress-level/:userId
StressLevelEndpoint(tokenOK, level, date) ==
    IF ~tokenOK
    THEN /\ response' = [Response("stress", 401) EXCEPT
                            !.level = level, !.date = date]
         /\ UNCHANGED kvVars
    ELSE IF ~kvUser.present
    THEN /\ response' = [Response("stress", 404) EXCEPT
                            !.level = level, !.date = date]
         /\ UNCHANGED kvVars
    ELSE /\ Len(kvStress) < MaxStress
         /\ kvStress' = Prune(Push(kvStress,
                                   StressEntry(level,
                                               IF date = Undefined
                                               THEN Today(now) ELSE date,
                                               now)),
                              now)
         /\ response' = [Response("stress", 200) EXCEPT
                            !.level = level, !.date = date,
                            !.stressLevels = kvStress']
         /\ UNCHANGED << kvUser, kvActivities, kvJournal, kvId, kvTasks >>

\* A step that sends no request, or whose request never reaches the server.
NoRequest ==
    /\ response' = NoResponse
    /\ UNCHANGED kvVars

\* const body = await c.req.json(), the first await of every handler that
\* takes a body, ahead of the look at the token: a body that is not JSON
\* throws, and the handler's catch answers 500.
ParseBody(bodyOK, endpoint, handler) ==
    IF bodyOK
    THEN handler
    ELSE /\ response' = Response(endpoint, 500)
         /\ UNCHANGED kvVars

-----------------------------------------------------------------------------
(* Server: the three endpoints that read, change and write back the whole  *)
(* profile record, split at their awaits on the key-value store.  The      *)
(* requests carry the user's token and a JSON body; the body of a profile  *)
(* update is {petName}.                                                    *)

otherVars == << user, userStress, session, localUsers, currentScreen, op, op2,
               storedUser, isLoading, now, dashVars, screenVars >>

\* Stress levels the racing requests carry.
RaceLevels == {4, 5}

\* POST /activity/:userId, POST /stress-level/:userId and PUT /user/:userId
\* up to the await of kv.get(`user:${userId}`); the activity endpoint has
\* stored its activity record by then.
receive(kind, level) ==
    /\ Len(inflight) < MaxRequests
    /\ kind = "activity" => kvActivities < MaxActivities
    /\ inflight' = Append(inflight,
                          [kind |-> kind, pc |-> "get", level |-> level,
                           rewardPoints |-> 0, stressLevels |-> << >>])
    /\ kvActivities' = IF kind = "activity"
                       THEN kvActivities + 1 ELSE kvActivities
    /\ UNCHANGED << kvUser, kvJournal, kvStress, kvId, kvTasks, response >>
    /\ UNCHANGED otherVars

\* The store answers the request's kv.get: userData is the record as it is
\* stored at this moment.
kvGet(i) ==
    /\ i \in DOMAIN inflight
    /\ inflight[i].pc = "get"
    /\ kvUser.present
    /\ inflight' = [inflight EXCEPT ![i].pc = "set",
                                    ![i].rewardPoints = kvUser.rewardPoints,
                                    ![i].stressLevels = kvStress]
    /\ UNCHANGED << kvVars, response >>
    /\ UNCHANGED otherVars

\* The handler changes its userData (adds the points, or pushes the entry and
\* prunes, or spreads the updates over it) and the store executes
\* kv.set(`user:${userId}`, userData); the handler then answers.
kvSet(i) ==
    /\ i \in DOMAIN inflight
    /\ inflight[i].pc = "set"
    /\ inflight' = [inflight EXCEPT ![i].pc = "done"]
    /\ IF inflight[i].kind = "activity"
       THEN /\ kvUser' = Profile(inflight[i].rewardPoints
                                    + ServerPoints("meditation"))
            /\ kvStress' = inflight[i].stressLevels
            /\ response' = [Response("activity", 500) EXCEPT
                               !.type = "meditation"]
       ELSE IF inflight[i].kind = "put"
       THEN /\ kvUser' = Profile(inflight[i].rewardPoints)
            /\ kvStress' = inflight[i].stressLevels
            /\ response' = Response("user.put", 200)
       ELSE /\ kvUser' = Profile(inflight[i].rewardPoints)
            /\ kvStress' = Prune(Push(inflight[i].stressLevels,
                                      StressEntry(inflight[i].level,
                                                  Today(now), now)),
                                 now)
            /\ response' = [Response("stress", 200) EXCEPT
                               !.level = inflight[i].level,
                               !.stressLevels = kvStress']
    /\ UNCHANGED << kvActivities, kvJournal, kvId, kvTasks >>
    /\ UNCHANGED otherVars

-----------------------------------------------------------------------------
(* Client: the application shell (part_000) and AuthScreen.  Signing in   *)
(* and out, and requests of other API clients, are taken between handlers, *)
(* not while one awaits a response; navigation is free.                    *)

\* App.handleLogin
handleLogin(rewardPoints, stressLevels) ==
    /\ user' = Profile(rewardPoints)
    /\ userStress' = stressLevels
    /\ storedUser' = TRUE
    /\ currentScreen' = "dashboard"

\* AuthScreen.handleSubmit, sign in: Supabase session and backend profile.
LoginBackend ==
    /\ Settled
    /\ ~isLoading
    /\ currentScreen = "auth"
    /\ kvUser.present
    /\ UserGetEndpoint(TRUE)
    /\ session' = TRUE
    /\ handleLogin(kvUser.rewardPoints, kvStress)
    /\ op' = Settle(op)
    /\ UNCHANGED << localUsers, op2, now, dashVars, isLoading, inflight,
                    screenVars >>

\* AuthScreen.handleSubmit, sign in: Supabase session, but the profile fetch
\* failed: "Basic Mode" profile with rewardPoints: 0.
LoginBasicMode ==
    /\ Settled
    /\ ~isLoading
    /\ currentScreen = "auth"
    /\ kvUser.present
    /\ session' = TRUE
    /\ handleLogin(0, << >>)
    /\ op' = Settle(op)
    /\ NoRequest
    /\ UNCHANGED << localUsers, op2, now, dashVars, isLoading, inflight,
                    screenVars >>

\* AuthScreen.handleSubmit, sign in: Supabase refused or unreachable, the
\* account of localStorage is used.  Its rewardPoints is the 0 of signup.
LoginLocal ==
    /\ Settled
    /\ ~isLoading
    /\ currentScreen = "auth"
    /\ localUsers
    /\ handleLogin(0, << >>)
    /\ op' = Settle(op)
    /\ NoRequest
    /\ UNCHANGED << session, localUsers, op2, now, dashVars, isLoading,
                    inflight, screenVars >>

\* AuthScreen.handleSubmit, sign up.  The form refuses an email that
\* localStorage already knows.  reached: the signup request reaches the
\* backend; signedIn: the Supabase sign in that follows yields a session.
\* Every other path ends in the local account fallback.
Signup(reached, signedIn) ==
    /\ Settled
    /\ ~isLoading
    /\ currentScreen = "auth"
    /\ ~localUsers
    /\ IF reached THEN SignupEndpoint ELSE NoRequest
    /\ IF reached /\ ~kvUser.present /\ signedIn
       THEN /\ session' = TRUE
            /\ UNCHANGED localUsers
       ELSE /\ localUsers' = TRUE
            /\ UNCHANGED session
    /\ handleLogin(0, << >>)
    /\ op' = Settle(op)
    /\ UNCHANGED << op2, now, dashVars, isLoading, inflight, screenVars >>

\* The stressLevels of the demo user.
DemoStress ==
    << StressEntry(7, Undefined, Undefined), StressEntry(5, Undefined, Undefined),
       StressEntry(3, Undefined, Undefined) >>

\* AuthScreen.handleInstantDemo
handleInstantDemo ==
    /\ Settled
    /\ ~isLoading
    /\ currentScreen = "auth"
    /\ handleLogin(150, DemoStress)
    /\ op' = Settle(op)
    /\ NoRequest
    /\ UNCHANGED << session, localUsers, op2, now, dashVars, isLoading,
                    inflight, screenVars >>

\* App.handleLogout (the Dashboard's button).  signedOut: the promise of
\* supabase.auth.signOut() resolves; when it rejects, the catch logs the
\* error and the handler returns.
handleLogout(signedOut) ==
    /\ Settled
    /\ currentScreen = "dashboard"
    /\ user.present
    /\ IF signedOut
       THEN /\ user' = Null
            /\ userStress' = << >>
            /\ storedUser' = FALSE
            /\ session' = FALSE
            /\ currentScreen' = "auth"
       ELSE UNCHANGED << user, userStress, storedUser, session, currentScreen >>
    /\ op' = [Idle EXCEPT !.kind = "logout", !.pc = "done"]
    /\ NoRequest
    /\ UNCHANGED << localUsers, op2, now, dashVars, isLoading, inflight,
                    screenVars >>

\* App's mount effect, checkSession, behind the loading spinner.
\* hasSession: supabase.auth.getSession() returns a session of an earlier
\* visit; reached: the profile request reaches the backend (a failed fetch
\* throws, and the catch removes both localStorage entries).
checkSession(hasSession, reached) ==
    /\ isLoading
    /\ hasSession => kvUser.present
    /\ IF hasSession /\ reached
       THEN /\ UserGetEndpoint(TRUE)
            /\ user' = Profile(kvUser.rewardPoints)
            /\ userStress' = kvStress
            /\ session' = TRUE
            /\ currentScreen' = "dashboard"
            /\ UNCHANGED storedUser
       ELSE /\ NoRequest
            /\ session' = IF hasSession THEN FALSE ELSE session
            /\ storedUser' = IF hasSession THEN FALSE ELSE storedUser
            /\ UNCHANGED << user, userStress, currentScreen >>
    /\ isLoading' = FALSE
    /\ op' = Settle(op)
    /\ UNCHANGED << localUsers, op2, now, dashVars, inflight, screenVars >>

\* The page is loaded again: App starts from its useState values,
\* localStorage is what it was.
reload ==
    /\ Settled
    /\ ~isLoading
    /\ user' = Null
    /\ userStress' = << >>
    /\ currentScreen' = "auth"
    /\ isLoading' = TRUE
    /\ op' = Settle(op)
    /\ NoRequest
    /\ UNCHANGED << storedUser, session, localUsers, op2, now, dashVars,
                    inflight, screenVars >>

\* The onNavigate / onBack props the screens are given.
NavTargets(screen) ==
    CASE screen = "dashboard"   -> {"tasks", "stress-free"}
      [] screen = "tasks"       -> {"dashboard"}
      [] screen = "stress-free" -> {"dashboard", "feedback", "meditation",
                                    "drawing", "journaling"}
      [] screen = "feedback"    -> {"stress-free"}
      [] screen = "meditation"  -> {"stress-free"}
      [] screen = "drawing"     -> {"stress-free"}
      [] screen = "journaling"  -> {"stress-free"}
      [] OTHER                  -> {}

\* App.navigateToScreen
navigateToScreen ==
    /\ user.present
    /\ \E screen \in NavTargets(currentScreen) : currentScreen' = screen
    /\ op' = Settle(op)
    /\ NoRequest
    /\ UNCHANGED << user, userStress, storedUser, session, localUsers, op2,
                    now, dashVars, isLoading, inflight, screenVars >>

-----------------------------------------------------------------------------
(* Client: the activity handlers.  u is the rewardPoints of the user prop  *)
(* the handler's closure holds; store0 records the rewardPoints the store  *)
(* held when the handler started.                                          *)

Start(kind, metric, pc) ==
    [kind |-> kind, pc |-> pc, metric |-> metric, u |-> user.rewardPoints,
     store0 |-> kvUser.rewardPoints, awarded |-> FALSE]

\* App.updateUser up to its await: setUser, then the session lookup.
updateUser(o) ==
    /\ user' = Profile(o.u + ClientPoints(o.kind, o.metric))
    /\ UNCHANGED userStress
    /\ storedUser' = TRUE
    /\ op' = [o EXCEPT !.pc = IF session THEN "sync" ELSE "done",
                       !.awarded = TRUE]

\* part_001 completeMeditation, up to its first await.  Without a stored
\* session it reports an error and returns.
completeMeditation(d) ==
    /\ currentScreen = "meditation"
    /\ user.present
    /\ Settled
    /\ user.rewardPoints + MeditationPoints(d) <= MaxPoints
    /\ op' = Start("meditation", d, IF session THEN "record" ELSE "done")
    /\ NoRequest
    /\ UNCHANGED << user, userStress, storedUser, session, localUsers,
                    currentScreen, op2, now, dashVars, isLoading, inflight,
                    screenVars >>

\* JournalingScreen saveEntry, up to its first await.  An entry without
\* title or content is refused, so the word count is at least 1.
saveEntry(wc) ==
    /\ currentScreen = "journaling"
    /\ user.present
    /\ Settled
    /\ wc >= 1
    /\ user.rewardPoints + JournalingPoints(wc) <= MaxPoints
    /\ op' = Start("journaling", wc, IF session THEN "journal" ELSE "done")
    /\ NoRequest
    /\ UNCHANGED << user, userStress, storedUser, session, localUsers,
                    currentScreen, op2, now, dashVars, isLoading, inflight,
                    screenVars >>

\* saveEntry: await api.createJournalEntry.  A failed fetch is caught and a
\* response with an error ends the handler; neither awards anything.
createJournalEntry(reached, tokenOK) ==
    /\ op.pc = "journal"
    /\ IF reached
       THEN /\ JournalEndpoint(tokenOK, op.metric, FALSE)
            /\ op' = [op EXCEPT !.pc = IF tokenOK THEN "record" ELSE "done"]
       ELSE /\ op' = [op EXCEPT !.pc = "done"]
            /\ NoRequest
    /\ UNCHANGED << user, userStress, storedUser, session, localUsers,
                    currentScreen, op2, now, dashVars, isLoading, inflight,
                    screenVars >>

\* The request body's duration field.
ActivityDuration(o) ==
    IF o.kind = "journaling" THEN Max(5, o.metric \div 50) ELSE o.metric

\* completeMeditation / saveEntry: await api.recordActivity.  The response is
\* not looked at.  A failed fetch is caught: completeMeditation still awards
\* the points, saveEntry reports the failure and returns.
recordActivity(reached, tokenOK) ==
    /\ op.pc = "record"
    /\ IF reached
       THEN /\ ActivityEndpoint(tokenOK, op.kind, ActivityDuration(op), FALSE)
            /\ op' = [op EXCEPT !.pc = "award"]
       ELSE /\ op' = [op EXCEPT !.pc = IF op.kind = "meditation"
                                       THEN "award" ELSE "done"]
            /\ NoRequest
    /\ UNCHANGED << user, userStress, storedUser, session, localUsers,
                    currentScreen, op2, now, dashVars, isLoading, inflight,
                    screenVars >>

\* completeMeditation / saveEntry after the await: the points are added to
\* the captured user and onUpdateUser is called.
awardPoints ==
    /\ op.pc = "award"
    /\ updateUser(op)
    /\ NoRequest
    /\ UNCHANGED << session, localUsers, currentScreen, op2, now, dashVars,
                    isLoading, inflight, screenVars >>

\* DrawingCanvas saveDrawing (also the tail of downloadDrawing): synchronous.
saveDrawing ==
    /\ currentScreen = "drawing"
    /\ user.present
    /\ Settled
    /\ user.rewardPoints + DrawingPoints <= MaxPoints
    /\ updateUser(Start("drawing", 0, "award"))
    /\ NoRequest
    /\ UNCHANGED << session, localUsers, currentScreen, op2, now, dashVars,
                    isLoading, inflight, screenVars >>

\* AvatarEditor handleSave: onUpdateUser({...user, avatar}).
handleSave ==
    /\ currentScreen = "dashboard"
    /\ user.present
    /\ Settled
    /\ updateUser(Start("avatar", 0, "award"))
    /\ NoRequest
    /\ UNCHANGED << session, localUsers, currentScreen, op2, now, dashVars,
                    isLoading, inflight, screenVars >>

\* App.updateUser: await api.updateUser(updatedUser.id, updatedUser, token).
\* A failed fetch is caught and logged.
syncUser(reached, tokenOK) ==
    /\ op.pc = "sync"
    /\ IF reached
       THEN /\ UserPutEndpoint(tokenOK,
                 [id |-> UserId,
                  rewardPoints |-> op.u + ClientPoints(op.kind, op.metric),
                  stressLevels |-> userStress])
            /\ op' = [op EXCEPT !.pc = "done"]
       ELSE /\ op' = [op EXCEPT !.pc = "done"]
            /\ NoRequest
    /\ UNCHANGED << user, userStress, storedUser, session, localUsers,
                    currentScreen, op2, now, dashVars, isLoading, inflight,
                    screenVars >>

\* Two calls of a handler are in flight (a second click on Save while the
\* first call awaits its response): the event loop continues the other one.
resume ==
    /\ op.pc # "idle" \/ op2.pc # "idle"
    /\ op # op2
    /\ op' = op2
    /\ op2' = op
    /\ NoRequest
    /\ UNCHANGED << user, userStress, storedUser, session, localUsers,
                    currentScreen, now, dashVars, isLoading, inflight,
                    screenVars >>

\* api.recordStressLevel, called by a client of the API with the user's token
\* or without one.
recordStressLevel(tokenOK, bodyOK, level, date) ==
    /\ Settled
    /\ ParseBody(bodyOK, "stress", StressLevelEndpoint(tokenOK, level, date))
    /\ op' = Settle(op)
    /\ UNCHANGED << user, userStress, storedUser, session, localUsers,
                    currentScreen, op2, now, dashVars, isLoading, inflight,
                    screenVars >>

\* api.getUser, called by a client of the API.
getUser(tokenOK) ==
    /\ Settled
    /\ UserGetEndpoint(tokenOK)
    /\ op' = Settle(op)
    /\ UNCHANGED << user, userStress, storedUser, session, localUsers,
                    currentScreen, op2, now, dashVars, isLoading, inflight,
                    screenVars >>

\* api.updateUser, called by a client of the API with a body of its own.
putUser(tokenOK, bodyOK, updates) ==
    /\ Settled
    /\ ParseBody(bodyOK, "user.put", UserPutEndpoint(tokenOK, updates))
    /\ op' = Settle(op)
    /\ UNCHANGED << user, userStress, storedUser, session, localUsers,
                    currentScreen, op2, now, dashVars, isLoading, inflight,
                    screenVars >>

\* Time passes.
tick ==
    /\ \E t \in Instants : t > now /\ now' = t
    /\ op' = Settle(op)
    /\ NoRequest
    /\ UNCHANGED << user, userStress, storedUser, session, localUsers,
                    currentScreen, op2, dashVars, isLoading, inflight,
                    screenVars >>

\* Any other client of the API posting an activity.
postActivity(tokenOK, bodyOK, type, duration, sameMs) ==
    /\ Settled
    /\ ParseBody(bodyOK, "activity",
                 ActivityEndpoint(tokenOK, type, duration, sameMs))
    /\ op' = Settle(op)
    /\ UNCHANGED << user, userStress, storedUser, session, localUsers,
                    currentScreen, op2, now, dashVars, isLoading, inflight,
                    screenVars >>

\* api.getTasks, called by a client of the API.
getTasks(tokenOK) ==
    /\ Settled
    /\ TasksGetEndpoint(tokenOK)
    /\ op' = Settle(op)
    /\ UNCHANGED << user, userStress, storedUser, session, localUsers,
                    currentScreen, op2, now, dashVars, isLoading, inflight,
                    screenVars >>

\* api.createTask, called by a client of the API.
createTask(tokenOK, bodyOK, sameMs) ==
    /\ Settled
    /\ ParseBody(bodyOK, "tasks.post", TasksPostEndpoint(tokenOK, sameMs))
    /\ op' = Settle(op)
    /\ UNCHANGED << user, userStress, storedUser, session, localUsers,
                    currentScreen, op2, now, dashVars, isLoading, inflight,
                    screenVars >>

\* api.getJournalEntries, called by a client of the API.
getJournalEntries(tokenOK) ==
    /\ Settled
    /\ JournalGetEndpoint(tokenOK)
    /\ op' = Settle(op)
    /\ UNCHANGED << user, userStress, storedUser, session, localUsers,
                    currentScreen, op2, now, dashVars, isLoading, inflight,
                    screenVars >>

\* api.createJournalEntry, called by a client of the API.
postJournalEntry(tokenOK, bodyOK, wordCount, sameMs) ==
    /\ Settled
    /\ ParseBody(bodyOK, "journal", JournalEndpoint(tokenOK, wordCount, sameMs))
    /\ op' = Settle(op)
    /\ UNCHANGED << user, userStress, storedUser, session, localUsers,
                    currentScreen, op2, now, dashVars, isLoading, inflight,
                    screenVars >>

-----------------------------------------------------------------------------
(* MeditationScreen (part_001): the session timer.  timer holds the        *)
(* component's state, the closure of its last render (seen: what the       *)
(* handlers bound to the buttons read), intervalRef.current, and the       *)
(* intervals that exist, each with the duration and customTimer its        *)
(* callback closed over.  Time is in seconds.                              *)

notTimerVars == << user, userStress, session, localUsers, currentScreen, op, op2,
                  storedUser, isLoading, now, dashVars, serverVars, inflight,
                  canvas >>

NoCompletion == [elapsed |-> Undefined, minutes |-> Undefined]

\* useState(null), useState(false), useState(0), useState(300),
\* useState([10]), useRef(null), as the first render sees them.
MeditationScreen ==
    [mounted |-> TRUE, selectedTrack |-> FALSE, isPlaying |-> FALSE,
     currentTime |-> 0, duration |-> 300, customTimer |-> 10,
     seen |-> [selectedTrack |-> FALSE, isPlaying |-> FALSE,
               timeZero |-> TRUE, duration |-> 300, customTimer |-> 10],
     intervalRef |-> 0, intervals |-> {}, completed |-> NoCompletion]

\* The closure a render of the state t gives the handlers.
Closure(t) ==
    [selectedTrack |-> t.selectedTrack, isPlaying |-> t.isPlaying,
     timeZero |-> (t.currentTime = 0), duration |-> t.duration,
     customTimer |-> t.customTimer]

\* The component after an event handler has set the state t.  flushed: the
\* render this schedules is committed before the next event is handled.
Rerender(t, flushed) ==
    IF flushed THEN [t EXCEPT !.seen = Closure(t)] ELSE t

\* A render that was scheduled is committed.
render ==
    /\ timer.seen # Closure(timer)
    /\ timer' = [timer EXCEPT !.seen = Closure(timer)]
    /\ UNCHANGED notTimerVars

\* The track buttons: setSelectedTrack(track).
selectTrack(flushed) ==
    /\ timer' = Rerender([timer EXCEPT !.selectedTrack = TRUE], flushed)
    /\ UNCHANGED notTimerVars

\* The category buttons: setSelectedCategory(id); setSelectedTrack(null).
selectCategory(flushed) ==
    /\ timer' = Rerender([timer EXCEPT !.selectedTrack = FALSE], flushed)
    /\ UNCHANGED notTimerVars

\* The session slider, rendered for a selected track when !isPlaying &&
\* currentTime === 0.
setCustomTimer(minutes, flushed) ==
    /\ timer.seen.selectedTrack
    /\ ~timer.seen.isPlaying
    /\ timer.seen.timeZero
    /\ timer' = Rerender([timer EXCEPT !.customTimer = minutes], flushed)
    /\ UNCHANGED notTimerVars

\* The id setInterval returns.
FreshInterval(t) ==
    CHOOSE id \in 1..MaxIntervals : \A iv \in t.intervals : iv.id # id

\* startMeditation.  The callback handed to setInterval closes over the
\* duration and the customTimer of the render the handler belongs to;
\* setDuration takes effect in the next render only.
startMeditation(t) ==
    IF ~t.seen.selectedTrack
    THEN t
    ELSE [t EXCEPT !.isPlaying = TRUE,
                   !.duration = t.seen.customTimer * 60,
                   !.currentTime = 0,
                   !.completed = NoCompletion,
                   !.intervalRef = FreshInterval(t),
                   !.intervals = @ \cup
                       { [id |-> FreshInterval(t),
                          duration |-> t.seen.duration,
                          customTimer |-> t.seen.customTimer] }]

\* stopMeditation: the interval intervalRef.current names is cleared.
stopMeditation(t) ==
    [t EXCEPT !.isPlaying = FALSE,
              !.intervals = { iv \in @ : iv.id # t.intervalRef },
              !.intervalRef = 0]

\* The play/pause button.
togglePlayPause(flushed) ==
    /\ timer.seen.selectedTrack
    /\ timer.seen.isPlaying \/ Cardinality(timer.intervals) < MaxIntervals
    /\ timer' = Rerender(IF timer.seen.isPlaying
                         THEN stopMeditation(timer)
                         ELSE startMeditation(timer), flushed)
    /\ UNCHANGED notTimerVars

\* The reset button.
resetMeditation(flushed) ==
    /\ timer.seen.selectedTrack
    /\ timer' = Rerender([stopMeditation(timer) EXCEPT !.currentTime = 0],
                         flushed)
    /\ UNCHANGED notTimerVars

\* An interval fires (every second): setCurrentTime(prev => ...).  On the
\* last second the updater calls stopMeditation and completeMeditation, the
\* latter with the customTimer of its closure.
intervalFires(id) ==
    /\ \E iv \in timer.intervals :
          /\ iv.id = id
          /\ timer' =
                Rerender(IF timer.currentTime >= iv.duration - 1
                         THEN [stopMeditation(timer) EXCEPT
                                  !.currentTime = iv.duration,
                                  !.completed =
                                      [elapsed |-> timer.currentTime + 1,
                                       minutes |-> iv.customTimer]]
                         ELSE [timer EXCEPT !.currentTime = @ + 1],
                         TRUE)
    /\ UNCHANGED notTimerVars

-----------------------------------------------------------------------------
(* DrawingCanvas: the undo and redo stacks.  An image is a number: 0 the   *)
(* white canvas, -k what the canvas showed after the k-th stroke made      *)
(* before the run, k > 0 what it shows after the k-th painting move of the *)
(* run.  before and roundTrip remember an undo and the redo right after it.*)

notCanvasVars == << user, userStress, session, localUsers, currentScreen, op, op2,
                   storedUser, isLoading, now, dashVars, serverVars, inflight,
                   timer >>

White == 0

NoTrip == [shown |-> White, undoStack |-> << >>, redoStack |-> << >>,
           isDrawing |-> FALSE]

\* The component after its mount effect (white canvas, first state saved)
\* and n strokes.
DrawingCanvas(n) ==
    [mounted |-> TRUE, isDrawing |-> FALSE, shown |-> 0 - n,
     undoStack |-> [k \in 1..(n + 1) |-> 0 - (k - 1)],
     redoStack |-> << >>, saves |-> 0, draws |-> 0,
     before |-> NoTrip, roundTrip |-> FALSE]

\* Slip: slice(-20).
KeepLast_Twenty == 19 + 1

\* prev.slice(-19)
KeepLast == 19

\* s.slice(-n)
Slice(s, n) == IF Len(s) <= n THEN s ELSE SubSeq(s, Len(s) - n + 1, Len(s))

\* saveCanvasState: getImageData; setUndoStack(prev => [...prev.slice(-19),
\* imageData]); setRedoStack([]).
saveCanvasState(c) ==
    [c EXCEPT !.undoStack = Append(Slice(@, KeepLast), c.shown),
              !.redoStack = << >>,
              !.saves = @ + 1,
              !.before = NoTrip,
              !.roundTrip = FALSE]

\* onMouseDown / onTouchStart
startDrawing ==
    /\ canvas' = [canvas EXCEPT !.isDrawing = TRUE,
                                !.before = NoTrip, !.roundTrip = FALSE]
    /\ UNCHANGED notCanvasVars

\* onMouseMove / onTouchMove: lineTo, stroke.
draw ==
    /\ canvas.draws < MaxDraws
    /\ canvas' = IF canvas.isDrawing
                 THEN [canvas EXCEPT !.shown = canvas.draws + 1,
                                     !.draws = @ + 1,
                                     !.before = NoTrip, !.roundTrip = FALSE]
                 ELSE [canvas EXCEPT !.before = NoTrip, !.roundTrip = FALSE]
    /\ UNCHANGED notCanvasVars

\* onMouseUp / onMouseLeave / onTouchEnd
stopDrawing ==
    /\ canvas.saves < MaxSaves
    /\ canvas' = IF canvas.isDrawing
                 THEN saveCanvasState([canvas EXCEPT !.isDrawing = FALSE])
                 ELSE [canvas EXCEPT !.before = NoTrip, !.roundTrip = FALSE]
    /\ UNCHANGED notCanvasVars

\* The clear button: fill white, saveCanvasState.
clearCanvas ==
    /\ canvas.saves < MaxSaves
    /\ canvas' = saveCanvasState([canvas EXCEPT !.shown = White])
    /\ UNCHANGED notCanvasVars

\* The window's resize listener: setting canvas.width empties the canvas; fill
\* white, saveCanvasState.
resizeCanvas ==
    /\ canvas.saves < MaxSaves
    /\ canvas' = saveCanvasState([canvas EXCEPT !.shown = White])
    /\ UNCHANGED notCanvasVars

\* Slip: undo puts the state it takes off the stack back on the canvas.
previousState_Current(c) == c.undoStack[Len(c.undoStack)]

\* undo: const previousState = undoStack[undoStack.length - 2]
previousState(c) == c.undoStack[Len(c.undoStack) - 1]

\* The undo button (disabled while undoStack.length <= 1).
undo ==
    /\ Len(canvas.undoStack) > 1
    /\ canvas' =
          [canvas EXCEPT
              !.redoStack = Append(@, canvas.undoStack[Len(canvas.undoStack)]),
              !.undoStack = SubSeq(@, 1, Len(@) - 1),
              !.shown = previousState(canvas),
              !.before = [shown |-> canvas.shown,
                          undoStack |-> canvas.undoStack,
                          redoStack |-> canvas.redoStack,
                          isDrawing |-> canvas.isDrawing],
              !.roundTrip = FALSE]
    /\ UNCHANGED notCanvasVars

\* The redo button (disabled while redoStack.length === 0).
redo ==
    /\ Len(canvas.redoStack) > 0
    /\ canvas' =
          [canvas EXCEPT
              !.redoStack = SubSeq(@, 1, Len(@) - 1),
              !.undoStack = Append(@, canvas.redoStack[Len(canvas.redoStack)]),
              !.shown = canvas.redoStack[Len(canvas.redoStack)],
              !.roundTrip = (canvas.before # NoTrip /\ ~canvas.roundTrip),
              !.before = IF canvas.before # NoTrip /\ ~canvas.roundTrip
                         THEN @ ELSE NoTrip]
    /\ UNCHANGED notCanvasVars

-----------------------------------------------------------------------------
(* Dashboard: the reward tiers *)

rewardTiers ==
    << [min |-> 0,   max |-> 49,  unbounded |-> FALSE, tier |-> "Bronze"],
       [min |-> 50,  max |-> 149, unbounded |-> FALSE, tier |-> "Silver"],
       [min |-> 150, max |-> 299, unbounded |-> FALSE, tier |-> "Gold"],
       [min |-> 300, max |-> 0,   unbounded |-> TRUE,  tier |-> "Diamond"] >>

\* Slip: < in place of <= at the upper end.
InTier_Exclusive(p, t) == p >= t.min /\ (t.unbounded \/ p < t.max)

\* tier => user.rewardPoints >= tier.min && user.rewardPoints <= tier.max,
\* max being Infinity in the last tier
InTier(p, t) == p >= t.min /\ (t.unbounded \/ p <= t.max)

\* rewardTiers.find(...) || rewardTiers[0]
currentTier(p) ==
    LET hits == { i \in 1..Len(rewardTiers) : InTier(p, rewardTiers[i]) }
    IN  IF hits = {} THEN rewardTiers[1]
        ELSE rewardTiers[CHOOSE i \in hits : \A j \in hits : i <= j]

\* Slip: the distance to the next tier's min in place of this tier's max.
pointsToNextTier_ToNextMin(p) ==
    IF currentTier(p).unbounded
    THEN [shown |-> FALSE, value |-> 0]
    ELSE [shown |-> TRUE, value |-> currentTier(p).max + 1 - p]

\* currentTier.max === Infinity ? 'Max tier!' : `${max - points} to next tier`
pointsToNextTier(p) ==
    IF currentTier(p).unbounded
    THEN [shown |-> FALSE, value |-> 0]
    ELSE [shown |-> TRUE, value |-> currentTier(p).max - p]

NotRendered == [shown |-> FALSE, value |-> 0]

\* One render of the Dashboard's reward card.
Dashboard ==
    /\ badge = ""
    /\ badge' = currentTier(points).tier
    /\ nextTier' = pointsToNextTier(points)
    /\ UNCHANGED << points, clientVars, serverVars, now, inflight, screenVars >>

-----------------------------------------------------------------------------
(* Specifications *)

Init ==
    /\ user = Null
    /\ userStress = << >>
    /\ session = FALSE
    /\ localUsers = FALSE
    /\ currentScreen = "auth"
    /\ op = Idle
    /\ op2 = Idle
    /\ kvUser \in {Null} \cup { Profile(p) : p \in StorePoints }
    /\ kvActivities = 0
    /\ kvJournal = 0
    /\ kvStress = << >>
    /\ kvId = UserId
    /\ now = 0
    /\ response = NoResponse
    /\ points = 0
    /\ badge = ""
    /\ nextTier = NotRendered
    /\ storedUser = FALSE
    /\ isLoading = FALSE
    /\ kvTasks = 0
    /\ inflight = NoRequests
    /\ timer = Unmounted
    /\ canvas = Unmounted

Next ==
    \/ LoginBackend
    \/ LoginBasicMode
    \/ LoginLocal
    \/ \E reached, signedIn \in BOOLEAN : Signup(reached, signedIn)
    \/ handleInstantDemo
    \/ \E signedOut \in BOOLEAN : handleLogout(signedOut)
    \/ navigateToScreen
    \/ \E d \in Durations : completeMeditation(d)
    \/ \E wc \in WordCounts : saveEntry(wc)
    \/ \E reached, tokenOK \in BOOLEAN : createJournalEntry(reached, tokenOK)
    \/ \E reached, tokenOK \in BOOLEAN : recordActivity(reached, tokenOK)
    \/ awardPoints
    \/ saveDrawing
    \/ handleSave
    \/ \E reached, tokenOK \in BOOLEAN : syncUser(reached, tokenOK)
    \/ \E tokenOK \in BOOLEAN, type \in ActivityTypes, d \in Durations :
          postActivity(tokenOK, TRUE, type, d, FALSE)

Spec == Init /\ [][Next]_vars

\* The tier lookup on every point total up to MaxTierPoints.
InitTier ==
    /\ user = Null
    /\ userStress = << >>
    /\ session = FALSE
    /\ localUsers = FALSE
    /\ currentScreen = "auth"
    /\ op = Idle
    /\ op2 = Idle
    /\ kvUser = Null
    /\ kvActivities = 0
    /\ kvJournal = 0
    /\ kvStress = << >>
    /\ kvId = UserId
    /\ now = 0
    /\ response = NoResponse
    /\ points \in 0..MaxTierPoints
    /\ badge = ""
    /\ nextTier = NotRendered
    /\ storedUser = FALSE
    /\ isLoading = FALSE
    /\ kvTasks = 0
    /\ inflight = NoRequests
    /\ timer = Unmounted
    /\ canvas = Unmounted

NextTier == Dashboard

SpecTier == InitTier /\ [][NextTier]_vars

\* A signed-in user on the journaling or the drawing screen, whose token the
\* server accepts; a handler may be called again while an earlier call is
\* still in flight.
InitDup ==
    /\ user = Profile(0)
    /\ userStress = << >>
    /\ session = TRUE
    /\ localUsers = FALSE
    /\ currentScreen \in {"journaling", "drawing"}
    /\ op = Idle
    /\ op2 = Idle
    /\ kvUser = Profile(0)
    /\ kvActivities = 0
    /\ kvJournal = 0
    /\ kvStress = << >>
    /\ kvId = UserId
    /\ now = 0
    /\ response = NoResponse
    /\ points = 0
    /\ badge = ""
    /\ nextTier = NotRendered
    /\ storedUser = TRUE
    /\ isLoading = FALSE
    /\ kvTasks = 0
    /\ inflight = NoRequests
    /\ timer = Unmounted
    /\ canvas = Unmounted

NextDup ==
    \/ \E wc \in WordCounts : saveEntry(wc)
    \/ \E reached \in BOOLEAN : createJournalEntry(reached, TRUE)
    \/ \E reached \in BOOLEAN : recordActivity(reached, TRUE)
    \/ awardPoints
    \/ saveDrawing
    \/ \E reached \in BOOLEAN : syncUser(reached, TRUE)
    \/ resume

SpecDup == InitDup /\ [][NextDup]_vars

\* The stored profile under the requests of the API's clients, on the
\* morning of day 1.
InitLedger ==
    /\ user = Null
    /\ userStress = << >>
    /\ session = FALSE
    /\ localUsers = FALSE
    /\ currentScreen = "auth"
    /\ op = Idle
    /\ op2 = Idle
    /\ kvUser \in {Null, Profile(0)}
    /\ kvActivities = 0
    /\ kvJournal = 0
    /\ kvStress = << >>
    /\ kvId = UserId
    /\ now = 2
    /\ response = NoResponse
    /\ points = 0
    /\ badge = ""
    /\ nextTier = NotRendered
    /\ storedUser = FALSE
    /\ isLoading = FALSE
    /\ kvTasks = 0
    /\ inflight = NoRequests
    /\ timer = Unmounted
    /\ canvas = Unmounted

NextLedger ==
    \/ \E tokenOK \in BOOLEAN, in \in StressInputs :
          recordStressLevel(tokenOK, TRUE, in.level, in.date)
    \/ \E tokenOK \in BOOLEAN : getUser(tokenOK)
    \/ \E tokenOK \in BOOLEAN, id \in Ids : putUser(tokenOK, TRUE, [id |-> id])
    \/ \E tokenOK \in BOOLEAN : putUser(tokenOK, TRUE, [petName |-> "pet"])
    \/ putUser(TRUE, TRUE, [stressLevels |-> << StressEntry(7, Undefined, Undefined) >>])
    \/ \E tokenOK \in BOOLEAN : postActivity(tokenOK, TRUE, "other", 5, FALSE)
    \/ tick

SpecLedger == InitLedger /\ [][NextLedger]_vars

\* The app of a user who signs in and saves the avatar, while stress levels
\* are recorded for the profile and time passes.
InitSync ==
    /\ user = Null
    /\ userStress = << >>
    /\ session = FALSE
    /\ localUsers = FALSE
    /\ currentScreen = "auth"
    /\ op = Idle
    /\ op2 = Idle
    /\ kvUser = Profile(0)
    /\ kvActivities = 0
    /\ kvJournal = 0
    /\ kvStress = << >>
    /\ kvId = UserId
    /\ now = 2
    /\ response = NoResponse
    /\ points = 0
    /\ badge = ""
    /\ nextTier = NotRendered
    /\ storedUser = FALSE
    /\ isLoading = FALSE
    /\ kvTasks = 0
    /\ inflight = NoRequests
    /\ timer = Unmounted
    /\ canvas = Unmounted

NextSync ==
    \/ LoginBackend
    \/ LoginBasicMode
    \/ \E signedOut \in BOOLEAN : handleLogout(signedOut)
    \/ handleSave
    \/ \E reached \in BOOLEAN : syncUser(reached, TRUE)
    \/ recordStressLevel(TRUE, TRUE, 4, Undefined)
    \/ tick

SpecSync == InitSync /\ [][NextSync]_vars

\* Bodies of profile updates the API's clients send.
PutBodies == { [petName |-> "pet"], [rewardPoints |-> 40] }

\* The per-user endpoints under the requests of the API's clients: with the
\* user's token or without a valid one, with a JSON body or another, in a
\* millisecond of their own or in that of an earlier create.
InitApi ==
    /\ user = Null
    /\ userStress = << >>
    /\ session = FALSE
    /\ localUsers = FALSE
    /\ currentScreen = "auth"
    /\ op = Idle
    /\ op2 = Idle
    /\ kvUser \in {Null, Profile(0)}
    /\ kvActivities = 0
    /\ kvJournal = 0
    /\ kvStress = << >>
    /\ kvId = UserId
    /\ now = 2
    /\ response = NoResponse
    /\ points = 0
    /\ badge = ""
    /\ nextTier = NotRendered
    /\ storedUser = FALSE
    /\ isLoading = FALSE
    /\ kvTasks = 0
    /\ inflight = NoRequests
    /\ timer = Unmounted
    /\ canvas = Unmounted

NextApi ==
    \/ \E tokenOK \in BOOLEAN : getUser(tokenOK)
    \/ \E tokenOK, bodyOK \in BOOLEAN, updates \in PutBodies :
          putUser(tokenOK, bodyOK, updates)
    \/ \E tokenOK \in BOOLEAN : getTasks(tokenOK)
    \/ \E tokenOK, bodyOK, sameMs \in BOOLEAN :
          createTask(tokenOK, bodyOK, sameMs)
    \/ \E tokenOK \in BOOLEAN : getJournalEntries(tokenOK)
    \/ \E tokenOK, bodyOK, sameMs \in BOOLEAN :
          postJournalEntry(tokenOK, bodyOK, 1, sameMs)
    \/ \E tokenOK, bodyOK, sameMs \in BOOLEAN :
          postActivity(tokenOK, bodyOK, "meditation", 5, sameMs)
    \/ \E tokenOK, bodyOK \in BOOLEAN :
          recordStressLevel(tokenOK, bodyOK, 4, Undefined)

SpecApi == InitApi /\ [][NextApi]_vars

\* A stored profile and up to MaxRequests requests that change it, each
\* served step by step, in any interleaving.
InitRace ==
    /\ user = Null
    /\ userStress = << >>
    /\ session = FALSE
    /\ localUsers = FALSE
    /\ currentScreen = "auth"
    /\ op = Idle
    /\ op2 = Idle
    /\ kvUser = Profile(0)
    /\ kvActivities = 0
    /\ kvJournal = 0
    /\ kvStress = << >>
    /\ kvId = UserId
    /\ now = 3
    /\ response = NoResponse
    /\ points = 0
    /\ badge = ""
    /\ nextTier = NotRendered
    /\ storedUser = FALSE
    /\ isLoading = FALSE
    /\ kvTasks = 0
    /\ inflight = NoRequests
    /\ timer = Unmounted
    /\ canvas = Unmounted

NextRace ==
    \/ receive("activity", Undefined)
    \/ receive("put", Undefined)
    \/ \E level \in RaceLevels : receive("stress", level)
    \/ \E i \in 1..MaxRequests : kvGet(i)
    \/ \E i \in 1..MaxRequests : kvSet(i)

SpecRace == InitRace /\ [][NextRace]_vars

\* The meditation screen of a signed-in user, every render committed before
\* the next event is handled.
InitTimer ==
    /\ user = Profile(0)
    /\ userStress = << >>
    /\ session = FALSE
    /\ localUsers = TRUE
    /\ currentScreen = "meditation"
    /\ op = Idle
    /\ op2 = Idle
    /\ kvUser = Null
    /\ kvActivities = 0
    /\ kvJournal = 0
    /\ kvStress = << >>
    /\ kvId = UserId
    /\ now = 0
    /\ response = NoResponse
    /\ points = 0
    /\ badge = ""
    /\ nextTier = NotRendered
    /\ storedUser = TRUE
    /\ isLoading = FALSE
    /\ kvTasks = 0
    /\ inflight = NoRequests
    /\ timer = MeditationScreen
    /\ canvas = Unmounted

NextTimer ==
    \/ selectTrack(TRUE)
    \/ selectCategory(TRUE)
    \/ \E minutes \in SliderValues : setCustomTimer(minutes, TRUE)
    \/ togglePlayPause(TRUE)
    \/ resetMeditation(TRUE)
    \/ \E id \in 1..MaxIntervals : intervalFires(id)

SpecTimer == InitTimer /\ [][NextTimer]_vars

\* The same screen, the slider left at its 10 minutes, when a click on the
\* play button may be handled before the render the previous click on it
\* scheduled is committed.
InitClicks ==
    /\ user = Profile(0)
    /\ userStress = << >>
    /\ session = FALSE
    /\ localUsers = TRUE
    /\ currentScreen = "meditation"
    /\ op = Idle
    /\ op2 = Idle
    /\ kvUser = Null
    /\ kvActivities = 0
    /\ kvJournal = 0
    /\ kvStress = << >>
    /\ kvId = UserId
    /\ now = 0
    /\ response = NoResponse
    /\ points = 0
    /\ badge = ""
    /\ nextTier = NotRendered
    /\ storedUser = TRUE
    /\ isLoading = FALSE
    /\ kvTasks = 0
    /\ inflight = NoRequests
    /\ timer = MeditationScreen
    /\ canvas = Unmounted

NextClicks ==
    \/ selectTrack(TRUE)
    \/ selectCategory(TRUE)
    \/ \E flushed \in BOOLEAN : togglePlayPause(flushed)
    \/ resetMeditation(TRUE)
    \/ \E id \in 1..MaxIntervals : intervalFires(id)
    \/ render

SpecClicks == InitClicks /\ [][NextClicks]_vars

\* The drawing canvas of a signed-in user, each event handled by the
\* handlers of the render that follows the previous event.
InitCanvas ==
    /\ user = Profile(0)
    /\ userStress = << >>
    /\ session = FALSE
    /\ localUsers = TRUE
    /\ currentScreen = "drawing"
    /\ op = Idle
    /\ op2 = Idle
    /\ kvUser = Null
    /\ kvActivities = 0
    /\ kvJournal = 0
    /\ kvStress = << >>
    /\ kvId = UserId
    /\ now = 0
    /\ response = NoResponse
    /\ points = 0
    /\ badge = ""
    /\ nextTier = NotRendered
    /\ storedUser = TRUE
    /\ isLoading = FALSE
    /\ kvTasks = 0
    /\ inflight = NoRequests
    /\ timer = Unmounted
    /\ canvas \in { DrawingCanvas(n) : n \in EarlierStrokes }

NextCanvas ==
    \/ startDrawing
    \/ draw
    \/ stopDrawing
    \/ clearCanvas
    \/ resizeCanvas
    \/ undo
    \/ redo

SpecCanvas == InitCanvas /\ [][NextCanvas]_vars

\* The application shell from a page load on: session restore, sign in and
\* sign up, navigation, avatar saves, logout, and loading the page again,
\* while activities and stress levels are recorded for the stored profile.
InitShell ==
    /\ user = Null
    /\ userStress = << >>
    /\ session \in BOOLEAN
    /\ localUsers = FALSE
    /\ currentScreen = "auth"
    /\ op = Idle
    /\ op2 = Idle
    /\ kvUser \in {Null} \cup { Profile(p) : p \in StorePoints }
    /\ kvActivities = 0
    /\ kvJournal = 0
    /\ kvStress = << >>
    /\ kvId = UserId
    /\ now = 0
    /\ response = NoResponse
    /\ points = 0
    /\ badge = ""
    /\ nextTier = NotRendered
    /\ storedUser \in BOOLEAN
    /\ isLoading = TRUE
    /\ kvTasks = 0
    /\ inflight = NoRequests
    /\ timer = Unmounted
    /\ canvas = Unmounted

NextShell ==
    \/ \E hasSession, reached \in BOOLEAN : checkSession(hasSession, reached)
    \/ reload
    \/ LoginBackend
    \/ LoginBasicMode
    \/ LoginLocal
    \/ \E reached, signedIn \in BOOLEAN : Signup(reached, signedIn)
    \/ handleInstantDemo
    \/ \E signedOut \in BOOLEAN : handleLogout(signedOut)
    \/ navigateToScreen
    \/ handleSave
    \/ \E reached, tokenOK \in BOOLEAN : syncUser(reached, tokenOK)
    \/ postActivity(TRUE, TRUE, "meditation", 5, FALSE)
    \/ recordStressLevel(TRUE, TRUE, 4, Undefined)

SpecShell == InitShell /\ [][NextShell]_vars

-----------------------------------------------------------------------------
(* Properties *)

\* The activity endpoint has just served the handler's recordActivity call
\* and stored the activity.
Recorded(kind) ==
    /\ op.kind = kind
    /\ op.pc = "award"
    /\ response.endpoint = "activity"
    /\ response.status # 401

\* The handler of the given kind has just added its points to the user.
Awarded(kind) ==
    /\ op.kind = kind
    /\ op.pc \in {"sync", "done"}
    /\ op.awarded

\* The handler has returned and its profile update was stored.
Synced ==
    /\ op.pc = "done"
    /\ response.endpoint = "user.put"
    /\ response.status = 200

\* C1: a completed meditation of d minutes changes rewardPoints by
\* floor(d * 2), in the client's completion handler (in-memory profile) and
\* in the activity endpoint (stored profile) alike.
C1_MeditationDelta ==
    /\ Awarded("meditation")
          => user.rewardPoints = op.u + (op.metric * 2)
    /\ (Recorded("meditation") /\ kvUser.present)
          => kvUser.rewardPoints = op.store0 + (op.metric * 2)

\* C2: a journal entry of wordCount words changes rewardPoints by
\* min(20, floor(wordCount / 25) + 5), in the client's save handler and in
\* the activity endpoint alike.
C2_JournalingDelta ==
    /\ Awarded("journaling")
          => user.rewardPoints
                = op.u + Min(20, (op.metric \div 25) + 5)
    /\ (Recorded("journaling") /\ kvUser.present)
          => kvUser.rewardPoints
                = op.store0 + Min(20, (op.metric \div 25) + 5)

\* C3: every drawing adds exactly 15 points: saveDrawing to the in-memory
\* profile, the activity endpoint to the stored profile, whatever else the
\* request carries.
C3_DrawingAdds15 ==
    [][ /\ (Settled /\ op'.kind = "drawing" /\ op' # op)
              => (user'.present /\ user'.rewardPoints = user.rewardPoints + 15)
        /\ (response'.endpoint = "activity" /\ response'.type = "drawing"
               /\ response'.status # 401 /\ kvUser.present)
              => kvUser'.rewardPoints = kvUser.rewardPoints + 15
      ]_vars

C3_Witness ==
    /\ op.kind = "drawing"
    /\ op.pc = "done"
    /\ op.awarded
    /\ user.rewardPoints = op.u + 15

\* C4: an authorised activity of a type other than meditation, drawing and
\* journaling is answered as a success and adds exactly 5 points.
C4_UnknownTypeSucceeds ==
    [][ (response'.endpoint = "activity" /\ response'.status # 401
            /\ response'.type \notin {"meditation", "drawing", "journaling"})
          => /\ response'.status = 200
             /\ kvUser.present
                   => kvUser'.rewardPoints = kvUser.rewardPoints + 5
      ]_vars

\* C5: the tier shown for a point total p >= 0 is the one tier whose range
\* holds p: Bronze [0,49], Silver [50,149], Gold [150,299], Diamond [300,..).
C5_TierOfPoints ==
    badge # "" =>
        /\ badge \in {"Bronze", "Silver", "Gold", "Diamond"}
        /\ badge = "Bronze"  <=> (0 <= points /\ points <= 49)
        /\ badge = "Silver"  <=> (50 <= points /\ points <= 149)
        /\ badge = "Gold"    <=> (150 <= points /\ points <= 299)
        /\ badge = "Diamond" <=> 300 <= points

C5_Witness ==
    /\ points = 149
    /\ badge = "Silver"

\* C6: below the top tier the text shows rangeMax - p of p's tier; in the top
\* tier (p >= 300) no number is shown.
C6_PointsToNextTier ==
    badge # "" =>
        /\ points <= 49 => (nextTier.shown /\ nextTier.value = 49 - points)
        /\ (50 <= points /\ points <= 149)
              => (nextTier.shown /\ nextTier.value = 149 - points)
        /\ (150 <= points /\ points <= 299)
              => (nextTier.shown /\ nextTier.value = 299 - points)
        /\ 300 <= points => ~nextTier.shown

C6_Witness ==
    /\ badge = "Silver"
    /\ points = 60
    /\ nextTier = [shown |-> TRUE, value |-> 89]

\* C7: a user with rewardPoints 40 (in memory and in the store) completes one
\* 10-minute meditation; when the handler has returned with its profile
\* update stored, both copies hold 60, the tier is Silver and 89 points are
\* shown to the next tier.
C7_Scenario ==
    op.kind = "meditation" /\ op.metric = 10 /\ op.u = 40 /\ op.store0 = 40
    /\ Synced

C7_EndToEnd ==
    C7_Scenario =>
        /\ user = Profile(60)
        /\ kvUser = Profile(60)
        /\ currentTier(user.rewardPoints).tier = "Silver"
        /\ pointsToNextTier(user.rewardPoints) = [shown |-> TRUE, value |-> 89]

C7_Witness ==
    /\ C7_Scenario
    /\ kvActivities > 0
    /\ kvUser.rewardPoints = 60

\* C8: rewardPoints never decreases from one state to the next, in the store
\* and in the client's in-memory profile.
C8_NeverDecreases ==
    [][ /\ (kvUser.present /\ kvUser'.present)
              => kvUser'.rewardPoints >= kvUser.rewardPoints
        /\ (user.present /\ user'.present)
              => user'.rewardPoints >= user.rewardPoints
      ]_vars

\* C9: when the handler of a completed meditation or drawing has returned,
\* rewardPoints has grown by the activity's one point delta, in memory and,
\* where a profile is stored and the handler synchronised it, in the store.
C9_AppliedExactlyOnce ==
    (op.pc = "done" /\ op.kind \in {"meditation", "drawing"}) =>
        /\ user.rewardPoints = op.u + ClientPoints(op.kind, op.metric)
        /\ Synced =>
              kvUser.rewardPoints
                 = op.store0 + ClientPoints(op.kind, op.metric)

C11_AwardSurvivesRemoteFailure ==
    [][ /\ (op.pc \in {"journal", "record"} /\ op'.pc # op.pc
               /\ response'.status # 200)
              => op'.pc = "award"
        /\ (op.pc = "sync" /\ op'.pc # op.pc /\ response'.status # 200)
              => /\ op'.awarded
                 /\ user' = user
                 /\ user.rewardPoints = op.u + ClientPoints(op.kind, op.metric)
      ]_vars

\* C12: two submissions of the same completed activity, the second made
\* while the first is in flight or right after it, are both awarded: when
\* both handler calls have returned with their award, rewardPoints has grown
\* by twice the activity's points.
C12_DuplicateAwardsTwice ==
    ( /\ op.pc = "done" /\ op.awarded
      /\ op2.pc = "done" /\ op2.awarded
      /\ op.kind = op2.kind /\ op.metric = op2.metric
      /\ op.kind \in {"meditation", "drawing", "journaling"}
      /\ Max(op.u, op2.u) - Min(op.u, op2.u)
            \in {0, ClientPoints(op.kind, op.metric)} )
    => user.rewardPoints
          = Min(op.u, op2.u) + 2 * ClientPoints(op.kind, op.metric)

\* The stress endpoint has just stored a write.
StressWritten ==
    /\ response.endpoint = "stress"
    /\ response.status = 200

\* a is b with some of its elements left out.
RECURSIVE IsSubSeq(_, _)
IsSubSeq(a, b) ==
    IF a = << >> THEN TRUE
    ELSE IF b = << >> THEN FALSE
    ELSE IF Head(a) = Head(b) THEN IsSubSeq(Tail(a), Tail(b))
    ELSE IsSubSeq(a, Tail(b))

\* C13: a stored stress write leaves, at the end of the sequence, the one new
\* entry {level, date: the given date or today, timestamp: now}; before it
\* come entries of the old sequence, in their order, so that the sequence
\* was longer by exactly 1 before pruning and the new entry was not pruned.
C13_AppendsOneEntry ==
    [][ (response'.endpoint = "stress" /\ response'.status = 200) =>
          LET n == Len(kvStress')
          IN  /\ n >= 1
              /\ n <= Len(kvStress) + 1
              /\ kvStress'[n].level = response'.level
              /\ kvStress'[n].date = IF response'.date = Undefined
                                     THEN now \div 2 ELSE response'.date
              /\ kvStress'[n].timestamp = now
              /\ IsSubSeq(SubSeq(kvStress', 1, n - 1), kvStress)
      ]_vars

C13_Witness ==
    /\ StressWritten
    /\ response.date = Undefined
    /\ Len(kvStress) = 2
    /\ kvStress[2] = [level |-> 11, date |-> 31, timestamp |-> 62]

\* C14: after a stored stress write, the stored sequence is the returned one
\* and every entry of it has a timestamp no more than 30 days before the
\* instant of the write.
C14_NothingOlderThan30Days ==
    StressWritten =>
        /\ response.stressLevels = kvStress
        /\ \A i \in DOMAIN kvStress :
              /\ kvStress[i].timestamp # Undefined
              /\ kvStress[i].timestamp >= now - 60

C14_Witness ==
    /\ StressWritten
    /\ now = 62
    /\ Len(kvStress) = 2
    /\ kvStress[1].timestamp = 3

\* C15: an entry whose timestamp is exactly 30 days before the instant of a
\* stored stress write is still in the sequence after that write.
C15_BoundaryEntryKept ==
    [][ (response'.endpoint = "stress" /\ response'.status = 200) =>
          \A i \in DOMAIN kvStress :
              kvStress[i].timestamp = now - 60
                 => \E j \in DOMAIN kvStress' : kvStress'[j] = kvStress[i]
      ]_vars

\* C17: a read of the profile, an activity recording and the passage of time
\* leave the stored stress sequence as it is, entries older than 30 days
\* included.
C17_PrunedOnlyByStressWrite ==
    [][ (response'.endpoint \in {"user.get", "activity", "none"})
          => kvStress' = kvStress
      ]_vars

C17_Witness ==
    /\ response.endpoint = "user.get"
    /\ response.status = 200
    /\ Len(kvStress) >= 1
    /\ kvStress[1].timestamp # Undefined
    /\ kvStress[1].timestamp < now - 60

\* C19: an authorised stress write for an existing profile succeeds whatever
\* the level, and the entry it appends carries the submitted level.
C19_LevelAcceptedAsIs ==
    [][ (response'.endpoint = "stress" /\ response'.status \notin {401, 404})
          => /\ response'.status = 200
             /\ Len(kvStress') >= 1
             /\ kvStress'[Len(kvStress')].level = response'.level
      ]_vars

C19_Witness ==
    /\ StressWritten
    /\ response.level = 11
    /\ kvStress[Len(kvStress)].level = 11
    /\ Len(kvStress) = 2
    /\ kvStress[1].level = -1

\* C20: the record stored under the user's key carries the id it was created
\* with, the user id of its key.
C20_IdImmutable ==
    kvUser.present => kvId = UserId

\* C16 as stated: a profile holds one entry recorded on day 1 and level 4 is
\* written on day 31: the returned sequence does not contain the day-1 entry
\* and contains the new entry with level 4.
C16_Day31RemovesDay1 ==
    [][ ( /\ response'.endpoint = "stress" /\ response'.status = 200
          /\ response'.level = 4
          /\ now \div 2 = 31
          /\ Len(kvStress) = 1
          /\ kvStress[1].timestamp # Undefined
          /\ kvStress[1].timestamp \div 2 = 1 )
        => /\ \A j \in DOMAIN response'.stressLevels :
                 response'.stressLevels[j] # kvStress[1]
           /\ \E j \in DOMAIN response'.stressLevels :
                 /\ response'.stressLevels[j].level = 4
                 /\ response'.stressLevels[j].timestamp = now
      ]_vars

\* C16 as amended: the same, for a write on day 31 that comes more than 30
\* days (to the instant) after the day-1 entry's timestamp.
C16_RemovedWhenOlderThan30Days ==
    [][ ( /\ response'.endpoint = "stress" /\ response'.status = 200
          /\ response'.level = 4
          /\ now \div 2 = 31
          /\ Len(kvStress) = 1
          /\ kvStress[1].timestamp # Undefined
          /\ kvStress[1].timestamp \div 2 = 1
          /\ now - kvStress[1].timestamp > 60 )
        => /\ \A j \in DOMAIN response'.stressLevels :
                 response'.stressLevels[j] # kvStress[1]
           /\ \E j \in DOMAIN response'.stressLevels :
                 /\ response'.stressLevels[j].level = 4
                 /\ response'.stressLevels[j].timestamp = now
      ]_vars

\* The app still holds the copy of the day-1 entry it read at sign in; the
\* write of the evening of day 31 has returned the new entry alone.
C16_Witness ==
    /\ StressWritten
    /\ response.level = 4
    /\ now = 63
    /\ userStress = << [level |-> 4, date |-> 1, timestamp |-> 2] >>
    /\ response.stressLevels = << [level |-> 4, date |-> 31, timestamp |-> 63] >>

\* C18: from one state of a stored profile to the next, an entry less than
\* 30 days old stays in the stress sequence, and the sequence is the old one
\* with entries left out and at most one entry added at the end.
C18_AppendOnlyUntilPruned ==
    [][ (kvUser.present /\ kvUser'.present) =>
          /\ \A i \in DOMAIN kvStress :
                ( /\ kvStress[i].timestamp # Undefined
                  /\ kvStress[i].timestamp > now - 60 )
                => \E j \in DOMAIN kvStress' : kvStress'[j] = kvStress[i]
          /\ \/ IsSubSeq(kvStress', kvStress)
             \/ /\ Len(kvStress') >= 1
                /\ IsSubSeq(SubSeq(kvStress', 1, Len(kvStress') - 1), kvStress)
      ]_vars

\* C21: a profile comes into being only with rewardPoints 0 and an empty
\* stress sequence, in the store (signup endpoint) and as the local account
\* of the sign-up form's fallback (the user handed to the app); and no step
\* removes a stored profile or a local account.
C21_CreatedEmptyNeverDeleted ==
    [][ /\ (~kvUser.present /\ kvUser'.present) =>
              /\ kvUser' = Profile(0)
              /\ kvStress' = << >>
              /\ response'.endpoint = "signup"
        /\ (~localUsers /\ localUsers') =>
              /\ user' = Profile(0)
              /\ userStress' = << >>
        /\ kvUser.present => kvUser'.present
        /\ localUsers => localUsers'
      ]_vars

\* A sign up has just created the stored profile and, the sign in that
\* follows having failed, the local account as well.
C21_Witness ==
    /\ response.endpoint = "signup"
    /\ response.status = 200
    /\ kvUser = Profile(0)
    /\ kvStress = << >>
    /\ localUsers
    /\ user = Profile(0)

\* A step that serves a per-user request without a valid token of the
\* user, its body being JSON or not (the GET requests have no body).
Unauthorised(bodyOK) ==
    \/ bodyOK /\ getUser(FALSE)
    \/ \E updates \in PutBodies : putUser(FALSE, bodyOK, updates)
    \/ bodyOK /\ getTasks(FALSE)
    \/ \E sameMs \in BOOLEAN : createTask(FALSE, bodyOK, sameMs)
    \/ bodyOK /\ getJournalEntries(FALSE)
    \/ \E sameMs \in BOOLEAN : postJournalEntry(FALSE, bodyOK, 1, sameMs)
    \/ \E sameMs \in BOOLEAN :
          postActivity(FALSE, bodyOK, "meditation", 5, sameMs)
    \/ recordStressLevel(FALSE, bodyOK, 4, Undefined)

C23_AllOrNothing ==
    [][ response'.endpoint = "activity" =>
          /\ response'.status \in {401, 500} =>
                /\ kvActivities' = kvActivities
                /\ kvUser' = kvUser
          /\ (kvActivities' # kvActivities \/ kvUser' # kvUser) =>
                response'.status = 200
      ]_vars

\* C25: every create of a task or a journal entry that is answered 200 adds
\* one record to those a listing returns for the user, so that n such creates
\* leave n records and none is written over.  (No create of an activity is
\* answered 200.)
C25_OwnKey ==
    [][ /\ (response'.endpoint = "tasks.post" /\ response'.status = 200) =>
              kvTasks' = kvTasks + 1
        /\ (response'.endpoint = "journal" /\ response'.status = 200) =>
              kvJournal' = kvJournal + 1
      ]_vars

\* C24: when every request has finished, the profile (stored with 0 points and
\* no stress entry at the start) has the points of every activity request and
\* one stress entry for every stress request.
C24_NoLostUpdate ==
    (inflight # NoRequests /\ \A i \in DOMAIN inflight : inflight[i].pc = "done") =>
       LET activities == { i \in DOMAIN inflight : inflight[i].kind = "activity" }
           writes == { i \in DOMAIN inflight : inflight[i].kind = "stress" }
       IN /\ kvUser.rewardPoints =
                Cardinality(activities) * ServerPoints("meditation")
          /\ Len(kvStress) = Cardinality(writes)
          /\ \A i \in writes :
                \E k \in DOMAIN kvStress : kvStress[k].level = inflight[i].level

\* C26: a session that has completed did so when the seconds elapsed since
\* its start were customTimer * 60, customTimer being the slider value the
\* session was started with.
C26_CompletesAtSliderValue ==
    timer.completed # NoCompletion =>
       timer.completed.elapsed = timer.completed.minutes * 60

C28_StacksBounded ==
    /\ [](/\ Len(canvas.undoStack) >= 1
          /\ Len(canvas.undoStack) <= 20
          /\ Len(canvas.undoStack) + Len(canvas.redoStack) <= 20)
    /\ [][ canvas'.saves # canvas.saves => canvas'.redoStack = << >> ]_vars

\* The undo stack is full and its oldest state has been dropped.
C28_Witness ==
    /\ Len(canvas.undoStack) = 20
    /\ canvas.undoStack[1] # White
    /\ canvas.saves >= 2

\* The canvas and the stacks are as they were before the undo.
SameAsBefore ==
    /\ canvas.shown = canvas.before.shown
    /\ canvas.undoStack = canvas.before.undoStack
    /\ canvas.redoStack = canvas.before.redoStack

\* C29, as stated: after an undo and the redo right after it the canvas and
\* both stacks are as before the undo; and the canvas always shows the top
\* of the undo stack.
C29_RoundTripAndTop ==
    /\ canvas.roundTrip => SameAsBefore
    /\ canvas.shown = canvas.undoStack[Len(canvas.undoStack)]

\* C29, amended: the same, while no stroke is in progress (for the round
\* trip: when none was in progress at the undo).
C29_RoundTripAndTopBetweenStrokes ==
    /\ (canvas.roundTrip /\ ~canvas.before.isDrawing) => SameAsBefore
    /\ ~canvas.isDrawing =>
          canvas.shown = canvas.undoStack[Len(canvas.undoStack)]

\* A stroke has been undone and redone.
C29_Witness ==
    /\ canvas.roundTrip
    /\ ~canvas.before.isDrawing
    /\ canvas.shown > 0
    /\ canvas.redoStack = << >>

\* C30: a screen other than 'auth' is current only while a user is set; and
\* when handleLogout has returned, the user is unset, the localStorage
\* entries 'nimathi-session' and 'nimathi-user' are gone and the screen is
\* 'auth'.
C30_ScreenNeedsUserAndLogoutClears ==
    /\ currentScreen # "auth" => user.present
    /\ (op.kind = "logout" /\ op.pc = "done") =>
          /\ user = Null
          /\ ~session
          /\ ~storedUser
          /\ currentScreen = "auth"

====
